---- MODULE Spec2Model ----
(***************************************************************************)
(* WatchLyst backend: the preference-learning engine (scoring-system.js),  *)
(* the interaction / queue cloud functions (functions/src/                 *)
(* recommendations.ts) and the batch processor (functions/lib/             *)
(* optimization-config.js), as state machines.                             *)
(*                                                                         *)
(* Numbers.  The code computes in IEEE doubles.  The model computes in     *)
(* fixed point: a real x is the integer x * Scale, products are rounded    *)
(* to the nearest unit.  NaN is a value of its own (the code produces it   *)
(* from an undefined gesture weight and reads it back through "|| 0").     *)
(***************************************************************************)
EXTENDS Integers, Sequences, FiniteSets, TLC

\* ------------------------------------------------------------------ bounds
\* fixed-point resolution: one unit is 1/Scale
Scale == 1000
\* longest sequence of updateUserPreferences calls explored by SpecLearn
MaxUpdates == 3
\* OptimizationConfig.batching.maxBatchSize, scaled down from 500
maxBatchSize == 2
\* items handed to addItem
MaxItems == 4
\* bulk writes the store rejects before it accepts every write
MaxFails == 2
\* interaction documents created for the user, one handler invocation each
MaxHandlers == 2
\* length of a recommendation queue, scaled down from 50
QueueSize == 2
\* refreshRecommendations calls
MaxRefreshCalls == 1
\* generateInitialRecommendations calls
MaxGenCalls == 1
\* interaction documents created in SpecStore, where the handlers run beside
\* the two callables (at most MaxHandlers)
MaxStoreHandlers == 1
\* maxSize of the MemoryCache under test (the global caches use 100 and 500)
maxSize == 2
\* seconds the clock advances while the cache is used
MaxTicks == 1

\* ------------------------------------------------------------- arithmetic
\* IEEE NaN, kept apart from every number the model can compute
NaN == 99999999

IsNaN(x) == x = NaN

\* a / b rounded to the nearest integer, b > 0
RoundDiv(a, b) ==
    IF a >= 0 THEN (2 * a + b) \div (2 * b)
              ELSE -((2 * (-a) + b) \div (2 * b))

\* x * y on fixed-point numbers; NaN is absorbing
Mul(x, y) == IF IsNaN(x) \/ IsNaN(y) THEN NaN ELSE RoundDiv(x * y, Scale)

Add(x, y) == IF IsNaN(x) \/ IsNaN(y) THEN NaN ELSE x + y

Sub(x, y) == IF IsNaN(x) \/ IsNaN(y) THEN NaN ELSE x - y

\* Math.min / Math.max: NaN if either argument is NaN
MathMin(x, y) == IF IsNaN(x) \/ IsNaN(y) THEN NaN ELSE IF x < y THEN x ELSE y

MathMax(x, y) == IF IsNaN(x) \/ IsNaN(y) THEN NaN ELSE IF x > y THEN x ELSE y

\* JavaScript "v || 0" on a number: 0 and NaN are falsy
OrZero(x) == IF IsNaN(x) THEN 0 ELSE x

\* Math.pow(b, k) for an integer k >= 0
RECURSIVE MathPow(_, _)
MathPow(b, k) == IF k = 0 THEN Scale ELSE Mul(b, MathPow(b, k - 1))

\* ---------------------------------------------------------- scoring-system
GestureNames == {"loved", "liked", "seen", "not_seen", "disliked"}

\* a table in which "seen" counts as half a "liked"
GestureWeightsSeenCounts(action) ==
    CASE action = "loved"    -> 3 * Scale
      [] action = "liked"    -> (3 * Scale) \div 2
      [] action = "seen"     -> (3 * Scale) \div 4
      [] action = "not_seen" -> 0
      [] action = "disliked" -> -((5 * Scale) \div 2)
      [] OTHER               -> NaN

\* GESTURE_WEIGHTS[action]; undefined (NaN in arithmetic) for any other action
GESTURE_WEIGHTS(action) ==
    CASE action = "loved"    -> 3 * Scale
      [] action = "liked"    -> (3 * Scale) \div 2
      [] action = "seen"     -> 0
      [] action = "not_seen" -> 0
      [] action = "disliked" -> -((5 * Scale) \div 2)
      [] OTHER               -> NaN

FEATURE_DIMENSIONS ==
    {"genre_action", "genre_comedy", "genre_drama", "genre_horror",
     "genre_romance", "genre_scifi", "popularity_normalized",
     "recency_score", "rating_normalized"}

initializeUserPreferenceVector == [d \in FEATURE_DIMENSIONS |-> 0]

\* const decayFactor = 0.95
decayFactor == (95 * Scale) \div 100

\* the default learningRate = 0.1
defaultLearningRate == Scale \div 10

effectiveLearningRate(learningRate, totalInteractions) ==
    Mul(learningRate, MathPow(decayFactor, totalInteractions \div 100))

\* the clamp dropped
ClampUnitOff(v) == v

\* Math.max(-1, Math.min(1, v))
ClampUnit(v) == MathMax(-Scale, MathMin(Scale, v))

\* the difference taken the other way round
UpdateDimensionReversed(currentValue, movieValue, gestureWeight, rate) ==
    ClampUnit(Add(currentValue,
                  Mul(Mul(rate, gestureWeight), Sub(currentValue, movieValue))))

\* one dimension of the EMA update
UpdateDimension(currentValue, movieValue, gestureWeight, rate) ==
    ClampUnit(Add(currentValue,
                  Mul(Mul(rate, gestureWeight), Sub(movieValue, currentValue))))

\* updateUserPreferences(...).preferences
updateUserPreferences(currentPreferences, movieFeatures, action, learningRate, totalInteractions) ==
    [d \in FEATURE_DIMENSIONS |->
        UpdateDimension(OrZero(currentPreferences[d]), OrZero(movieFeatures[d]),
                        GESTURE_WEIGHTS(action),
                        effectiveLearningRate(learningRate, totalInteractions))]

\* ------------------------------------------------------------------ state
VARIABLES
    \* updateUserPreferences applied repeatedly (test-recommendations.js, Test 9)
    lprefs,       \* the preference vector being updated
    lcount,       \* number of updates applied so far
    \* BatchProcessor
    queue,        \* this.queue
    processing,   \* this.processing
    timer,        \* this.timer: "null", "armed" (pending) or "fired" (a handle
                  \* whose callback has already run; the field is never reset
                  \* by the callback itself)
    flights,      \* the bulk writes (batch.commit()) awaiting their outcome:
                  \* the items each carries, and the item whose addItem call
                  \* is suspended in "await this.processBatch()" (0: started
                  \* by the timer, nobody waits)
    persisted,    \* the items written by successful bulk writes, in order
    nextItem,     \* the next item handed to addItem
    failures,     \* bulk writes the store has rejected so far
    addedInFlight,\* history: items accepted since the latest flush started
    lastEvent,    \* history: the latest BatchProcessor step
    \* the document store, for one user, and the functions working on it
    prefDoc,      \* userPreferences/{userId}
    userDoc,      \* users/{userId}
    interactions, \* interactions/{id} of the user, by trigger order
    movieData,    \* movies/{id}.recommendationData
    recDoc,       \* recommendations/{userId}
    hs,           \* processSwipeInteraction invocations: position and locals
    rf,           \* refreshUserRecommendations calls: position and locals,
                  \* one per handler (called in step 9) and one, 0, for the
                  \* refreshRecommendations callable
    gen,          \* the generateInitialRecommendations call: position, locals
    prior,        \* interactions processed before the behaviour starts
    \* MemoryCache
    cache,        \* this.cache: the Map's entries in insertion order
    now,          \* Date.now(), in milliseconds
    cacheEvent,   \* history: the latest call on the cache and what it returned
    \* the pure functions of scoring-system.js, called on their own
    call          \* the latest call: the function, its arguments, its result

learnVars == <<lprefs, lcount>>

batchVars == <<queue, processing, timer, flights, persisted,
               nextItem, failures, addedInFlight, lastEvent>>

storeVars == <<prefDoc, userDoc, interactions, movieData, recDoc, hs, rf,
               gen, prior>>

cacheVars == <<cache, now, cacheEvent>>

pureVars == <<call>>

vars == <<lprefs, lcount, queue, processing, timer, flights, persisted,
          nextItem, failures, addedInFlight, lastEvent,
          prefDoc, userDoc, interactions, movieData, recDoc, hs, rf, gen,
          prior, cache, now, cacheEvent, call>>

\* ---------------------------------------------- repeated preference updates
\* a feature vector that is 0 outside the listed dimensions
FeatureVector(given) ==
    [d \in FEATURE_DIMENSIONS |-> IF d \in DOMAIN given THEN given[d] ELSE 0]

\* Test 9's extremeFeatures
extremeFeatures ==
    FeatureVector([genre_action |-> Scale, popularity_normalized |-> Scale,
                   recency_score |-> Scale, rating_normalized |-> Scale])

\* an item vector far outside the design range, with a NaN recency
\* (movieToFeatureVector yields NaN for an unparsable release date)
hugeFeatures ==
    FeatureVector([genre_action |-> 50 * Scale, genre_comedy |-> -(50 * Scale),
                   popularity_normalized |-> 7 * Scale, recency_score |-> NaN])

horrorFeatures ==
    FeatureVector([genre_horror |-> Scale,
                   popularity_normalized |-> (5 * Scale) \div 100,
                   rating_normalized |-> (6 * Scale) \div 10])

comedyFeatures ==
    FeatureVector([genre_comedy |-> Scale,
                   popularity_normalized |-> (3 * Scale) \div 10,
                   recency_score |-> Scale \div 2,
                   rating_normalized |-> (72 * Scale) \div 100])

LearnItems == {extremeFeatures, hugeFeatures, horrorFeatures}

\* learning rates passed by callers: the default 0.1, and 1.0
LearnRates == {defaultLearningRate, Scale}

\* totalInteractions passed by callers: before and after the first decay step
LearnTotals == {0, 100}

LearnInit ==
    /\ lprefs = initializeUserPreferenceVector
    /\ lcount = 0

\* prefs = updateUserPreferences(prefs, features, action, rate, i).preferences
LearnUpdate ==
    /\ lcount < MaxUpdates
    /\ \E movieFeatures \in LearnItems, action \in GestureNames,
          learningRate \in LearnRates, totalInteractions \in LearnTotals :
          lprefs' = updateUserPreferences(lprefs, movieFeatures, action,
                                          learningRate, totalInteractions)
    /\ lcount' = lcount + 1
    /\ UNCHANGED <<batchVars, storeVars, cacheVars, pureVars>>

NextLearn == LearnUpdate

\* C1: after any sequence of updates with gestures of the weight table, every
\* dimension of the preference vector is a number within [-1,1]
PreferencesBounded ==
    \A d \in FEATURE_DIMENSIONS :
        /\ ~IsNaN(lprefs[d])
        /\ -Scale <= lprefs[d]
        /\ lprefs[d] <= Scale

\* C1 witness: repeated extreme updates have driven dimensions to both bounds
PreferencesSaturated ==
    /\ lcount = MaxUpdates
    /\ lprefs["genre_action"] = Scale
    /\ lprefs["genre_comedy"] = -Scale

\* ---------------------------------------------------------- BatchProcessor
Range(seq) == {seq[i] : i \in 1..Len(seq)}

RemoveAt(seq, i) == SubSeq(seq, 1, i - 1) \o SubSeq(seq, i + 1, Len(seq))

\* processBatch goes past its first "if (...) return"
processBatchProceedsAlways(proc, q) == q # <<>>

processBatchProceeds(proc, q) == ~proc /\ q # <<>>

\* this.queue.splice(0, maxBatchSize): the items removed ...
SpliceTaken(q) ==
    SubSeq(q, 1, IF Len(q) < maxBatchSize THEN Len(q) ELSE maxBatchSize)

\* the taken items left in the queue as well
SpliceLeftKeepsAll(q) == q

\* ... and the items left in the queue
SpliceLeft(q) ==
    SubSeq(q, (IF Len(q) < maxBatchSize THEN Len(q) ELSE maxBatchSize) + 1, Len(q))

\* the failed batch appended at the back
RequeueAtBack(items, q) == q \o items

\* the queue overwritten by the failed batch
RequeueOverwrite(items, q) == items

\* this.queue.unshift(...items)
Requeue(items, q) == items \o q

\* addItem calls that have not returned
Blocked == {flights[i].awaitedBy : i \in 1..Len(flights)} \ {0}

\* the items of the bulk writes in flight
InFlightItems == UNION {Range(flights[i].items) : i \in 1..Len(flights)}

BatchInit ==
    /\ queue = <<>>
    /\ processing = FALSE
    /\ timer = "null"
    /\ flights = <<>>
    /\ persisted = <<>>
    /\ nextItem = 1
    /\ failures = 0
    /\ addedInFlight = {}
    /\ lastEvent = "init"

\* processBatch past its guard, up to "await batch.commit()", on queue q
StartFlush(q, caller) ==
    /\ processing' = TRUE
    /\ timer' = "null"
    /\ queue' = SpliceLeft(q)
    /\ flights' = Append(flights, [items |-> SpliceTaken(q), awaitedBy |-> caller])
    /\ addedInFlight' = {}

\* addItem(item), up to its first suspension
AddItem ==
    /\ nextItem <= MaxItems
    /\ nextItem' = nextItem + 1
    /\ lastEvent' = "add"
    /\ UNCHANGED <<persisted, failures>>
    /\ LET item == nextItem
           q == Append(queue, item)
       IN  IF Len(q) >= maxBatchSize
           THEN IF processBatchProceeds(processing, q)
                THEN StartFlush(q, item)
                ELSE /\ queue' = q
                     /\ addedInFlight' =
                            IF processing THEN addedInFlight \cup {item}
                                          ELSE addedInFlight
                     /\ UNCHANGED <<processing, timer, flights>>
           ELSE /\ queue' = q
                /\ timer' = IF timer = "null" THEN "armed" ELSE timer
                /\ addedInFlight' =
                       IF processing THEN addedInFlight \cup {item}
                                     ELSE addedInFlight
                /\ UNCHANGED <<processing, flights>>

\* the setTimeout callback: this.processBatch(), not awaited
TimerFire ==
    /\ timer = "armed"
    /\ lastEvent' = "timer"
    /\ UNCHANGED <<persisted, nextItem, failures>>
    /\ IF processBatchProceeds(processing, queue)
       THEN StartFlush(queue, 0)
       ELSE /\ timer' = "fired"
            /\ UNCHANGED <<queue, processing, flights, addedInFlight>>

\* batch.commit() resolves: all items of the batch are written
CommitOk ==
    \E i \in 1..Len(flights) :
        /\ persisted' = persisted \o flights[i].items
        /\ flights' = RemoveAt(flights, i)
        /\ processing' = FALSE
        /\ lastEvent' = "ok"
        /\ UNCHANGED <<queue, timer, nextItem, failures, addedInFlight>>

\* batch.commit() rejects: nothing is written, catch and finally run
CommitFail ==
    \E i \in 1..Len(flights) :
        /\ failures < MaxFails
        /\ failures' = failures + 1
        /\ queue' = Requeue(flights[i].items, queue)
        /\ flights' = RemoveAt(flights, i)
        /\ processing' = FALSE
        /\ lastEvent' = "fail"
        /\ UNCHANGED <<persisted, timer, nextItem, addedInFlight>>

otherThanBatch == <<learnVars, storeVars, cacheVars, pureVars>>

NextBatch ==
    \/ AddItem /\ UNCHANGED otherThanBatch
    \/ TimerFire /\ UNCHANGED otherThanBatch
    \/ CommitOk /\ UNCHANGED otherThanBatch
    \/ CommitFail /\ UNCHANGED otherThanBatch

\* C5: at most one bulk write is awaiting its outcome at any time
OneFlushInFlight == Len(flights) <= 1

\* C5 witness: while a bulk write is in flight the queue has again reached
\* maxBatchSize, so a second processBatch was called and returned at once
SecondFlushRefused ==
    /\ Len(flights) = 1
    /\ Len(queue) >= maxBatchSize
    /\ lastEvent = "add"

\* C6: a step that ends a bulk write without persisting it (the write failed)
\* leaves the queue as the failed batch followed by the queue as it was, and
\* leaves the processor able to start a flush
FailedBatchRequeuedAtFront ==
    [][(Len(flights') < Len(flights) /\ persisted' = persisted)
          => /\ \E i \in 1..Len(flights) :
                    queue' = flights[i].items \o queue
             /\ processBatchProceeds(processing', queue')]_vars

\* C6 witness: a bulk write has just failed and items had been added while it
\* was in flight
FailedWithLaterItems ==
    /\ lastEvent = "fail"
    /\ addedInFlight # {}
    /\ Len(queue) > Cardinality(addedInFlight)

\* C7: every item accepted by addItem is eventually persisted
EveryItemEventuallyPersisted ==
    \A item \in 1..MaxItems :
        (item < nextItem) ~> (item \in Range(persisted))

\* C8: whenever the queue holds an item and no flush is in flight, a timer
\* that has not fired yet is armed (a queue that reaches maxBatchSize starts
\* its flush within the addItem step itself)
UnflushedItemHasTrigger ==
    (queue # <<>> /\ ~processing) => timer = "armed"

\* C9: an item added while a flush is in flight is not in the bulk write in
\* flight, its addItem call is not suspended, and it is in the queue while
\* the flush is in flight and when the flush has just completed or failed
AddedInFlightGoesToLaterBatch ==
    /\ processing =>
          /\ addedInFlight \cap InFlightItems = {}
          /\ addedInFlight \cap Blocked = {}
          /\ addedInFlight \subseteq Range(queue)
    /\ lastEvent \in {"ok", "fail"} => addedInFlight \subseteq Range(queue)

\* C9 witness: a flush has just failed after two items were added during it
TwoAddedDuringFailedFlush ==
    /\ lastEvent = "fail"
    /\ Cardinality(addedInFlight) >= 2

RECURSIVE InFlightSeq(_)
\* the items of the bulk writes in flight, in the order the writes started
InFlightSeq(fs) == IF fs = <<>> THEN <<>> ELSE Head(fs).items \o InFlightSeq(Tail(fs))

\* C29: the items persisted, then those of the bulk write in flight, then
\* those queued are exactly the items addItem has accepted, each once and in
\* the order of acceptance; and no bulk write carries more than maxBatchSize
\* items
NoItemLostOrDuplicated ==
    /\ persisted \o InFlightSeq(flights) \o queue = [i \in 1..(nextItem - 1) |-> i]
    /\ \A i \in 1..Len(flights) : Len(flights[i].items) <= maxBatchSize

\* C29 witness: after a rejected bulk write, items accepted before and during
\* it have been persisted, while a later item is still queued
PersistedInOrderAfterFailure ==
    /\ failures >= 1
    /\ Len(persisted) >= maxBatchSize
    /\ queue # <<>>
    /\ lastEvent = "ok"

\* ------------------------------------------------ scoring and exploration
\* JavaScript "v || dflt" on a number
OrElse(x, dflt) == IF IsNaN(x) \/ x = 0 THEN dflt ELSE x

RECURSIVE SumOver(_, _)
SumOver(S, f) ==
    IF S = {} THEN 0
    ELSE LET d == CHOOSE e \in S : TRUE IN f[d] + SumOver(S \ {d}, f)

\* calculateRecommendationScore(...).baseScore: dot product / dimension count
baseScore(userPreferences, movieFeatures) ==
    RoundDiv(SumOver(FEATURE_DIMENSIONS,
                     [d \in FEATURE_DIMENSIONS |->
                         Mul(OrZero(userPreferences[d]), OrZero(movieFeatures[d]))]),
             Cardinality(FEATURE_DIMENSIONS))

\* calculateRecommendationScore(...).finalScore; explorationBonus is
\* Math.random() * explorationRate for an exploration movie, else 0
finalScore(userPreferences, movieFeatures, explorationBonus) ==
    baseScore(userPreferences, movieFeatures) + explorationBonus

Abs(x) == IF x < 0 THEN -x ELSE x

\* the hard ceiling of the exploration rate, 0.3
maxExplorationRate == (3 * Scale) \div 10

\* baseExplorationRate, 0.15
baseExplorationRate == (15 * Scale) \div 100

\* the rate without its ceiling
calculateExplorationRateUncapped(totalInteractions, likeRatio, baseRate) ==
    LET newUserBonus ==
            Mul(MathMax(0, RoundDiv((50 - totalInteractions) * Scale, 50)),
                Scale \div 10)
        likeRatioAdjustment ==
            Mul(Abs(likeRatio - Scale \div 2), (2 * Scale) \div 10)
    IN  baseRate + newUserBonus + likeRatioAdjustment

calculateExplorationRate(totalInteractions, likeRatio, baseRate) ==
    LET newUserBonus ==
            Mul(MathMax(0, RoundDiv((50 - totalInteractions) * Scale, 50)),
                Scale \div 10)
        likeRatioAdjustment ==
            Mul(Abs(likeRatio - Scale \div 2), (2 * Scale) \div 10)
    IN  MathMin(maxExplorationRate, baseRate + newUserBonus + likeRatioAdjustment)

\* Math.log10(m) in millionths, at the arguments the model passes
Log10 ==
    1 :> 0 @@ 2 :> 301030 @@ 3 :> 477121 @@ 4 :> 602060 @@ 5 :> 698970 @@
    6 :> 778151 @@ 7 :> 845098 @@ 8 :> 903090 @@ 9 :> 954243 @@
    10 :> 1000000 @@ 11 :> 1041393 @@ 12 :> 1079181 @@ 21 :> 1322219 @@
    22 :> 1342423 @@ 100 :> 2000000 @@ 101 :> 2004321 @@ 102 :> 2008600 @@
    316 :> 2499687 @@ 317 :> 2501059 @@ 318 :> 2502427 @@
    1001 :> 3000434 @@ 1002 :> 3000868

\* the confidence without its ceiling
calculateModelConfidenceUncapped(totalInteractions) ==
    RoundDiv(Log10[totalInteractions + 1] * 10, 25 * (1000000 \div Scale))

\* Math.min(1, Math.log10(totalInteractions + 1) / 2.5)
calculateModelConfidence(totalInteractions) ==
    MathMin(Scale, RoundDiv(Log10[totalInteractions + 1] * 10,
                            25 * (1000000 \div Scale)))

\* ------------------------------------------------------------ the store
Handlers == 1..MaxHandlers

\* callers of refreshUserRecommendations: the handlers, and 0 for the
\* refreshRecommendations callable
Refreshers == Handlers \cup {0}

\* the movies collection in the order of .orderBy('popularity', 'desc');
\* voteAverage in tenths
Catalog ==
    << [id |-> "m1", popularity |-> 1000, voteAverage |-> 100,
        genres |-> {"action"}, featureVector |-> extremeFeatures],
       [id |-> "m3", popularity |-> 300, voteAverage |-> 72,
        genres |-> {"comedy"}, featureVector |-> comedyFeatures],
       [id |-> "m2", popularity |-> 50, voteAverage |-> 60,
        genres |-> {"horror"}, featureVector |-> horrorFeatures] >>

MovieIds == {Catalog[i].id : i \in 1..Len(Catalog)}

MovieDoc(m) == Catalog[CHOOSE i \in 1..Len(Catalog) : Catalog[i].id = m]

\* movie ids interactions refer to; "gone" has no movie document
SwipeMovies == {"m1", "m2", "gone"}

\* actions of interaction documents; "like" is what the swipe endpoints of
\* functions/src/index.ts record, and is not in GESTURE_WEIGHTS
SwipeActions == {"loved", "seen", "like"}

AllActions == GestureNames \cup SwipeActions

\* totalSwipes % 5 === 0
RefreshEvery == 5

\* the movie of the interactions processed before the behaviour starts, all
\* of them "seen"
PriorMovie == "m2"

NoScoring ==
    [scored |-> FALSE, baseScore |-> 0, gestureWeight |-> 0, finalScore |-> 0,
     preferenceVectorBefore |-> initializeUserPreferenceVector,
     preferenceVectorAfter |-> initializeUserPreferenceVector]

NoInteraction ==
    [created |-> FALSE, movieId |-> "gone", action |-> "seen",
     scoringData |-> NoScoring]

HandlerIdle ==
    [pc |-> "idle", currentPreferences |-> initializeUserPreferenceVector,
     totalUpdates |-> 0, preferences |-> initializeUserPreferenceVector,
     totalSwipes |-> 0, likeRatio |-> 0, actionCount |-> 0,
     wrotePref |-> FALSE]

GenIdle ==
    [pc |-> "idle", selectedCategories |-> {},
     initialPreferences |-> initializeUserPreferenceVector, queue |-> <<>>,
     calls |-> 0]

\* startSeen, startRate: history, the interaction history and the exploration
\* rate of the statistics as they were at the refresh's first read
RefreshIdle ==
    [pc |-> "idle", userPreferences |-> initializeUserPreferenceVector,
     explorationRate |-> 0, seenMovies |-> {}, queue |-> <<>>, calls |-> 0,
     startSeen |-> {}, startRate |-> 0]

\* the user's documents after `n` processed "seen" interactions of PriorMovie
\* (a weight-0 gesture leaves the all-zero vector as it is)
StoreInit ==
    /\ prior \in {0, RefreshEvery - 1}
    /\ prefDoc = [exists |-> prior > 0,
                  preferenceVector |-> initializeUserPreferenceVector,
                  totalUpdates |-> prior,
                  modelConfidence |-> calculateModelConfidence(prior)]
    /\ userDoc = [exists |-> TRUE, totalSwipes |-> prior, likeRatio |-> 0,
                  swipesByAction |->
                      [a \in AllActions |-> IF a = "seen" THEN prior ELSE 0]]
    /\ interactions = [h \in Handlers |-> NoInteraction]
    /\ movieData = [m \in MovieIds |->
                       [totalInteractions |-> IF m = PriorMovie THEN prior ELSE 0,
                        positiveInteractions |-> 0]]
    /\ recDoc = [exists |-> FALSE, queue |-> <<>>]
    /\ hs = [h \in Handlers |-> HandlerIdle]
    /\ rf = [p \in Refreshers |-> RefreshIdle]
    /\ gen = GenIdle

\* ------------------------------------------- processSwipeInteraction
\* the invocation has returned ("done") or thrown ("failed"); its locals are gone
HandlerEnded(h, how) ==
    [HandlerIdle EXCEPT !.pc = how, !.wrotePref = hs[h].wrotePref]

\* an interaction document is created; onCreate starts its handler
CreateInteraction(h) ==
    /\ hs[h].pc = "idle"
    /\ \A g \in Handlers : g < h => hs[g].pc # "idle"
    /\ \E movieId \in SwipeMovies, action \in SwipeActions :
          interactions' = [interactions EXCEPT
              ![h] = [NoInteraction EXCEPT !.created = TRUE,
                                           !.movieId = movieId,
                                           !.action = action]]
    /\ hs' = [hs EXCEPT ![h].pc = "getPref"]
    /\ UNCHANGED <<prefDoc, userDoc, movieData, recDoc, rf, gen, prior>>

\* 1. await userPrefRef.get(), defaults when the document is missing, and
\* 2.-5. await movies.doc(movieId).get(): return if the movie is missing,
\* else compute the update from the preferences just read.  (Movie documents
\* do not change, so the two reads are one step.)
GetPref(h) ==
    /\ hs[h].pc = "getPref"
    /\ IF interactions[h].movieId \in MovieIds
       THEN hs' = [hs EXCEPT
                ![h].pc = "setPref",
                ![h].currentPreferences = prefDoc.preferenceVector,
                ![h].totalUpdates = prefDoc.totalUpdates,
                ![h].preferences =
                    updateUserPreferences(prefDoc.preferenceVector,
                        MovieDoc(interactions[h].movieId).featureVector,
                        interactions[h].action, defaultLearningRate,
                        prefDoc.totalUpdates)]
       ELSE hs' = [hs EXCEPT ![h] = HandlerEnded(h, "done")]
    /\ UNCHANGED <<prefDoc, userDoc, interactions, movieData, recDoc, rf, gen, prior>>

\* the userPreferences document written in step 6, from what the handler
\* read in step 1 and computed in step 4
PrefWrite(h) ==
    [exists |-> TRUE, preferenceVector |-> hs[h].preferences,
     totalUpdates |-> hs[h].totalUpdates + 1,
     modelConfidence |-> calculateModelConfidence(hs[h].totalUpdates + 1)]

\* the scoringData of step 7
ScoringData(h) ==
    LET features == MovieDoc(interactions[h].movieId).featureVector
    IN  [scored |-> TRUE,
         baseScore |-> baseScore(hs[h].currentPreferences, features),
         gestureWeight |-> GESTURE_WEIGHTS(interactions[h].action),
         finalScore |-> finalScore(hs[h].preferences, features, 0),
         preferenceVectorBefore |-> hs[h].currentPreferences,
         preferenceVectorAfter |-> hs[h].preferences]

\* 6. await userPrefRef.set({preferenceVector, learningMetadata}, {merge}),
\* and 7. await snap.ref.update({scoringData}), which only this handler's own
\* interaction document sees.  gestureWeight is undefined for an action
\* outside GESTURE_WEIGHTS: Firestore rejects the write of step 7 unless
\* ignoreUndefinedProperties was set (by optimizeFirestoreQueries, which no
\* code here calls), and the handler rethrows
SetPref(h) ==
    /\ hs[h].pc = "setPref"
    /\ prefDoc' = PrefWrite(h)
    /\ \/ /\ interactions' = [interactions EXCEPT ![h].scoringData = ScoringData(h)]
          /\ hs' = [hs EXCEPT ![h].pc = "getUser", ![h].wrotePref = TRUE]
       \/ /\ IsNaN(GESTURE_WEIGHTS(interactions[h].action))
          /\ hs' = [hs EXCEPT
                 ![h] = [HandlerEnded(h, "failed") EXCEPT !.wrotePref = TRUE]]
          /\ UNCHANGED interactions
    /\ UNCHANGED <<userDoc, movieData, recDoc, rf, gen, prior>>

\* positiveActions / totalSwipes
LikeRatio(positiveActions, totalSwipes) ==
    IF totalSwipes > 0 THEN RoundDiv(positiveActions * Scale, totalSwipes) ELSE 0

\* 8. await userRef.get(), and the statistics computed from it
GetUser(h) ==
    /\ hs[h].pc = "getUser"
    /\ IF userDoc.exists
       THEN LET action == interactions[h].action
                swipesByAction ==
                    [userDoc.swipesByAction EXCEPT ![action] = @ + 1]
                totalSwipes == userDoc.totalSwipes + 1
            IN  hs' = [hs EXCEPT
                    ![h].pc = "updUser",
                    ![h].actionCount = swipesByAction[action],
                    ![h].totalSwipes = totalSwipes,
                    ![h].likeRatio =
                        LikeRatio(swipesByAction["loved"] + swipesByAction["liked"],
                                  totalSwipes)]
       ELSE hs' = [hs EXCEPT ![h].pc = "updMovie"]
    /\ UNCHANGED <<prefDoc, userDoc, interactions, movieData, recDoc, rf, gen, prior>>

\* await userRef.update({stats.totalSwipes, stats.likeRatio,
\* stats.swipesByAction.<action>}), then 9. the refresh check
UpdUser(h) ==
    /\ hs[h].pc = "updUser"
    /\ userDoc' = [userDoc EXCEPT
           !.totalSwipes = hs[h].totalSwipes,
           !.likeRatio = hs[h].likeRatio,
           !.swipesByAction[interactions[h].action] = hs[h].actionCount]
    /\ IF hs[h].totalSwipes % RefreshEvery = 0
       THEN /\ hs' = [hs EXCEPT ![h].pc = "refresh"]
            /\ rf' = [rf EXCEPT ![h].pc = "getPref", ![h].calls = @ + 1]
       ELSE /\ hs' = [hs EXCEPT ![h].pc = "updMovie"]
            /\ UNCHANGED rf
    /\ UNCHANGED <<prefDoc, interactions, movieData, recDoc, gen, prior>>

\* 10. await movieDoc.ref.update({recommendationData: increment ...})
UpdMovie(h) ==
    /\ hs[h].pc = "updMovie"
    /\ movieData' = [movieData EXCEPT
           ![interactions[h].movieId].totalInteractions = @ + 1,
           ![interactions[h].movieId].positiveInteractions =
               IF interactions[h].action \in {"loved", "liked"} THEN @ + 1 ELSE @]
    /\ hs' = [hs EXCEPT ![h] = HandlerEnded(h, "done")]
    /\ UNCHANGED <<prefDoc, userDoc, interactions, recDoc, rf, gen, prior>>

\* --------------------------------------------- refreshUserRecommendations
\* refreshUserRecommendations returns to its caller
RefreshReturns(p) ==
    /\ rf' = [rf EXCEPT ![p] = [RefreshIdle EXCEPT !.calls = rf[p].calls]]
    /\ IF p \in Handlers
       THEN hs' = [hs EXCEPT ![p].pc = "updMovie"]
       ELSE UNCHANGED hs

\* the refreshRecommendations callable is invoked
RefreshCall ==
    /\ rf[0].pc \in {"idle", "threw"}
    /\ rf[0].calls < MaxRefreshCalls
    /\ rf' = [rf EXCEPT ![0].pc = "getPref", ![0].calls = @ + 1]
    /\ UNCHANGED <<prefDoc, userDoc, interactions, movieData, recDoc, hs, gen, prior>>

\* the movieIds of the user's interaction documents
InteractedMovies ==
    {interactions[h].movieId : h \in {g \in Handlers : interactions[g].created}}
        \cup (IF prior > 0 THEN {PriorMovie} ELSE {})

\* 2. calculateExplorationRate(userStats.totalSwipes || 0,
\* userStats.likeRatio || 0.5, 0.15) of the users document
StatsExplorationRate(user) ==
    IF user.exists
    THEN calculateExplorationRate(OrElse(user.totalSwipes, 0),
                                  OrElse(user.likeRatio, Scale \div 2),
                                  baseExplorationRate)
    ELSE calculateExplorationRate(0, Scale \div 2, baseExplorationRate)

\* 1. await userPreferences.doc(userId).get(); return if missing
RfGetPref(p) ==
    /\ rf[p].pc = "getPref"
    /\ IF prefDoc.exists
       THEN /\ rf' = [rf EXCEPT ![p].pc = "getUser",
                                ![p].userPreferences = prefDoc.preferenceVector,
                                ![p].startSeen = InteractedMovies,
                                ![p].startRate = StatsExplorationRate(userDoc)]
            /\ UNCHANGED hs
       ELSE RefreshReturns(p)
    /\ UNCHANGED <<prefDoc, userDoc, interactions, movieData, recDoc, gen, prior>>

\* await users.doc(userId).get(), and 2. the exploration rate
RfGetUser(p) ==
    /\ rf[p].pc = "getUser"
    /\ rf' = [rf EXCEPT
           ![p].pc = "getInteractions",
           ![p].explorationRate = StatsExplorationRate(userDoc)]
    /\ UNCHANGED <<prefDoc, userDoc, interactions, movieData, recDoc, hs, gen, prior>>

\* the comparator the other way round: stable, ascending
SortByScoreAscending(seq) ==
    LET place == [i \in 1..Len(seq) |->
                     1 + Cardinality({j \in 1..Len(seq) :
                             \/ seq[j].score < seq[i].score
                             \/ seq[j].score = seq[i].score /\ j < i})]
    IN  [p \in 1..Len(seq) |-> seq[CHOOSE i \in 1..Len(seq) : place[i] = p]]

\* scoredMovies.sort((a, b) => b.score - a.score): stable, descending.  An
\* element's place is one more than the number of elements that sort before
\* it: those with a higher score, and the earlier ones with an equal score
SortByScore(seq) ==
    LET place == [i \in 1..Len(seq) |->
                     1 + Cardinality({j \in 1..Len(seq) :
                             \/ seq[j].score > seq[i].score
                             \/ seq[j].score = seq[i].score /\ j < i})]
    IN  [p \in 1..Len(seq) |-> seq[CHOOSE i \in 1..Len(seq) : place[i] = p]]

\* .slice(0, 50).map((item, index) => ({..., position: index}))
TopOfQueue(sorted) ==
    [i \in 1..(IF Len(sorted) < QueueSize THEN Len(sorted) ELSE QueueSize) |->
        [movieId |-> sorted[i].movieId, score |-> sorted[i].score,
         reason |-> sorted[i].reason, position |-> i - 1]]

\* the two Math.random() draws for a movie: "no" (not below the exploration
\* rate), or below it with a bonus draw of 0 ("lo") or just under 1 ("hi")
Draws == {"no", "lo", "hi"}

\* 5. one scored movie of the refresh
RefreshScored(movie, userPreferences, explorationRate, draw) ==
    [movieId |-> movie.id,
     score |-> finalScore(userPreferences, movie.featureVector,
                          CASE draw = "no" -> 0
                            [] draw = "lo" -> 0
                            [] draw = "hi" -> explorationRate - 1),
     reason |-> IF draw # "no" THEN "exploration"
                ELSE IF movie.popularity > 200 /\ movie.voteAverage > 75
                     THEN "trending"
                     ELSE "preference_match"]

\* no movie filtered out
UnseenAll(catalog, seenMovies) == catalog

\* 4. the movies whose id is not in seenMovies, in catalog order
Unseen(catalog, seenMovies) ==
    LET NotSeen(movie) == movie.id \notin seenMovies
    IN  SelectSeq(catalog, NotSeen)

\* 3. await interactions.where('userId', '==', userId).get(), and 4.-6.
\* await movies.orderBy('popularity', 'desc').limit(1000).get(), the unseen
\* movies scored, sorted and cut to the queue.  (Movie documents do not
\* change, so the two reads are one step.)
RfGetInteractions(p) ==
    /\ rf[p].pc = "getInteractions"
    /\ LET seenMovies == InteractedMovies
           unseenMovies == Unseen(Catalog, seenMovies)
       IN  \E draw \in [1..Len(unseenMovies) -> Draws] :
              rf' = [rf EXCEPT
                  ![p].pc = "setRecs",
                  ![p].seenMovies = seenMovies,
                  ![p].queue =
                      TopOfQueue(SortByScore(
                          [i \in 1..Len(unseenMovies) |->
                              RefreshScored(unseenMovies[i], rf[p].userPreferences,
                                            rf[p].explorationRate, draw[i])]))]
    /\ UNCHANGED <<prefDoc, userDoc, interactions, movieData, recDoc, hs, gen, prior>>

\* 7. await recommendations.doc(userId).set({queue, ...})
RfSetRecs(p) ==
    /\ rf[p].pc = "setRecs"
    /\ recDoc' = [exists |-> TRUE, queue |-> rf[p].queue]
    /\ RefreshReturns(p)
    /\ UNCHANGED <<prefDoc, userDoc, interactions, movieData, gen, prior>>

\* ----------------------------------------- generateInitialRecommendations
\* data.selectedCategories of the calls
CategoryChoices == {{"action"}, {"comedy", "horror"}}

\* initialPreferences: 0.5 on `genre_${category}` for each selected category
SeededPreferences(selectedCategories) ==
    [d \in FEATURE_DIMENSIONS |->
        IF \E c \in selectedCategories :
               d = (CASE c = "action" -> "genre_action"
                      [] c = "comedy" -> "genre_comedy"
                      [] c = "drama" -> "genre_drama"
                      [] c = "horror" -> "genre_horror"
                      [] c = "romance" -> "genre_romance"
                      [] c = "scifi" -> "genre_scifi"
                      [] OTHER -> "none")
        THEN Scale \div 2 ELSE 0]

\* the call arrives from an authenticated user
GenCall ==
    /\ gen.pc \in {"idle", "threw"}
    /\ gen.calls < MaxGenCalls
    /\ \E selectedCategories \in CategoryChoices :
          gen' = [gen EXCEPT
              !.pc = "setPref", !.calls = @ + 1,
              !.selectedCategories = selectedCategories,
              !.initialPreferences = SeededPreferences(selectedCategories)]
    /\ UNCHANGED <<prefDoc, userDoc, interactions, movieData, recDoc, hs, rf, prior>>

\* the userPreferences document written in step 1 (totalUpdates: 0)
GenPrefWrite(initialPreferences, stored) ==
    [exists |-> TRUE, preferenceVector |-> initialPreferences,
     totalUpdates |-> 0, modelConfidence |-> 0]

\* 1. await userPrefRef.set({preferenceVector, learningMetadata}), no merge
GenSetPref ==
    /\ gen.pc = "setPref"
    /\ prefDoc' = GenPrefWrite(gen.initialPreferences, prefDoc)
    /\ gen' = [gen EXCEPT !.pc = "getMovies"]
    /\ UNCHANGED <<userDoc, interactions, movieData, recDoc, hs, rf, prior>>

\* 3. one scored movie of the initial generation
InitialScored(movie, initialPreferences, selectedCategories) ==
    LET hasSelectedGenre == movie.genres \cap selectedCategories # {}
        isTrending == movie.popularity > 100 /\ movie.voteAverage > 70
        reason == IF hasSelectedGenre THEN "category_match"
                  ELSE IF isTrending THEN "trending" ELSE "exploration"
        bonusScore == IF hasSelectedGenre THEN Scale \div 2
                      ELSE IF isTrending THEN (3 * Scale) \div 10 ELSE 0
    IN  [movieId |-> movie.id,
         score |-> finalScore(initialPreferences, movie.featureVector, 0) + bonusScore,
         reason |-> reason]

\* the shares rounded up instead of down
TargetCountRoundedUp(reason, slots) ==
    CASE reason = "category_match" -> (slots * 60 + 99) \div 100
      [] reason = "trending"       -> (slots * 25 + 99) \div 100
      [] reason = "exploration"    -> (slots * 15 + 99) \div 100

\* targetDistribution[reason]: Math.floor(50 * share), for a queue of
\* `slots` entries
TargetCountOf(reason, slots) ==
    CASE reason = "category_match" -> (slots * 60) \div 100
      [] reason = "trending"       -> (slots * 25) \div 100
      [] reason = "exploration"    -> (slots * 15) \div 100

TargetCount(reason) == TargetCountOf(reason, QueueSize)

FirstN(seq, n) == SubSeq(seq, 1, IF Len(seq) < n THEN Len(seq) ELSE n)

\* the queue with the remaining slots filled from all the scored movies,
\* those already added included
InitialQueueRefilled(sorted, slots) ==
    LET OfReason(r) ==
            LET Is(e) == e.reason = r
            IN  FirstN(SelectSeq(sorted, Is), TargetCountOf(r, slots))
        byReason == OfReason("category_match") \o OfReason("trending")
                        \o OfReason("exploration")
        rest == FirstN(sorted, slots - Len(byReason))
        fill == [i \in 1..Len(rest) |->
                    [rest[i] EXCEPT !.reason = "preference_match"]]
        all == byReason \o fill
    IN  [i \in 1..Len(all) |->
            [movieId |-> all[i].movieId, score |-> all[i].score,
             reason |-> all[i].reason, position |-> i - 1]]

\* 5. the queue of `slots` entries built from the sorted scored movies: per
\* reason the first TargetCount of that reason, then the best of the rest as
\* preference_match
InitialQueueOf(sorted, slots) ==
    LET OfReason(r) ==
            LET Is(e) == e.reason = r
            IN  FirstN(SelectSeq(sorted, Is), TargetCountOf(r, slots))
        byReason == OfReason("category_match") \o OfReason("trending")
                        \o OfReason("exploration")
        addedMovies == {byReason[i].movieId : i \in 1..Len(byReason)}
        NotAdded(e) == e.movieId \notin addedMovies
        rest == FirstN(SelectSeq(sorted, NotAdded), slots - Len(byReason))
        fill == [i \in 1..Len(rest) |->
                    [rest[i] EXCEPT !.reason = "preference_match"]]
        all == byReason \o fill
    IN  [i \in 1..Len(all) |->
            [movieId |-> all[i].movieId, score |-> all[i].score,
             reason |-> all[i].reason, position |-> i - 1]]

InitialQueue(sorted) == InitialQueueOf(sorted, QueueSize)

\* 2.-5. await movies.orderBy('popularity', 'desc').limit(500).get(), the
\* movies scored, sorted and distributed
GenGetMovies ==
    /\ gen.pc = "getMovies"
    /\ gen' = [gen EXCEPT
           !.pc = "setRecs",
           !.queue = InitialQueue(SortByScore(
               [i \in 1..Len(Catalog) |->
                   InitialScored(Catalog[i], gen.initialPreferences,
                                 gen.selectedCategories)]))]
    /\ UNCHANGED <<prefDoc, userDoc, interactions, movieData, recDoc, hs, rf, prior>>

\* 6. await recommendationsRef.set({queue, ...}), and the call returns
GenSetRecs ==
    /\ gen.pc = "setRecs"
    /\ recDoc' = [exists |-> TRUE, queue |-> gen.queue]
    /\ gen' = [GenIdle EXCEPT !.calls = gen.calls]
    /\ UNCHANGED <<prefDoc, userDoc, interactions, movieData, hs, rf, prior>>

otherThanStore == <<learnVars, batchVars, cacheVars, pureVars>>

NextSwipe ==
    \/ \E h \in Handlers : CreateInteraction(h) /\ UNCHANGED otherThanStore
    \/ \E h \in Handlers : GetPref(h) /\ UNCHANGED otherThanStore
    \/ \E h \in Handlers : SetPref(h) /\ UNCHANGED otherThanStore
    \/ \E h \in Handlers : GetUser(h) /\ UNCHANGED otherThanStore
    \/ \E h \in Handlers : UpdUser(h) /\ UNCHANGED otherThanStore
    \/ \E h \in Handlers : RfGetPref(h) /\ UNCHANGED otherThanStore
    \/ \E h \in Handlers : RfGetUser(h) /\ UNCHANGED otherThanStore
    \/ \E h \in Handlers : RfGetInteractions(h) /\ UNCHANGED otherThanStore
    \/ \E h \in Handlers : RfSetRecs(h) /\ UNCHANGED otherThanStore
    \/ \E h \in Handlers : UpdMovie(h) /\ UNCHANGED otherThanStore

\* recordInteraction, refreshQueue and generateInitialQueue side by side
NextStore ==
    \/ \E h \in 1..MaxStoreHandlers : CreateInteraction(h) /\ UNCHANGED otherThanStore
    \/ \E h \in Handlers : GetPref(h) /\ UNCHANGED otherThanStore
    \/ \E h \in Handlers : SetPref(h) /\ UNCHANGED otherThanStore
    \/ \E h \in Handlers : GetUser(h) /\ UNCHANGED otherThanStore
    \/ \E h \in Handlers : UpdUser(h) /\ UNCHANGED otherThanStore
    \/ \E h \in Handlers : UpdMovie(h) /\ UNCHANGED otherThanStore
    \/ RefreshCall /\ UNCHANGED otherThanStore
    \/ \E p \in Refreshers : RfGetPref(p) /\ UNCHANGED otherThanStore
    \/ \E p \in Refreshers : RfGetUser(p) /\ UNCHANGED otherThanStore
    \/ \E p \in Refreshers : RfGetInteractions(p) /\ UNCHANGED otherThanStore
    \/ \E p \in Refreshers : RfSetRecs(p) /\ UNCHANGED otherThanStore
    \/ GenCall /\ UNCHANGED otherThanStore
    \/ GenSetPref /\ UNCHANGED otherThanStore
    \/ GenGetMovies /\ UNCHANGED otherThanStore
    \/ GenSetRecs /\ UNCHANGED otherThanStore

\* ------------------------------------------------- failing store operations
\* the queue document after a builder's catch block, with a partial queue
\* published
AbortedQueuePartial(stored, partial) == [exists |-> TRUE, queue |-> partial]

\* the queue document after a builder's catch block: the catch blocks log and
\* rethrow, they write nothing
AbortedQueue(stored, partial) == stored

\* a store operation of the handler other than the write of step 7 rejects:
\* the reads of steps 1-2 and 8, the writes of steps 6, 8 and 10.  The catch
\* block rethrows
HandlerOpFails(h) ==
    /\ hs[h].pc \in {"getPref", "setPref", "getUser", "updUser", "updMovie"}
    /\ hs' = [hs EXCEPT ![h] = HandlerEnded(h, "failed")]
    /\ UNCHANGED <<prefDoc, userDoc, interactions, movieData, recDoc, rf, gen, prior>>

\* the write of step 6 succeeds and the write of step 7 rejects
SetPrefThenFail(h) ==
    /\ hs[h].pc = "setPref"
    /\ prefDoc' = PrefWrite(h)
    /\ hs' = [hs EXCEPT
           ![h] = [HandlerEnded(h, "failed") EXCEPT !.wrotePref = TRUE]]
    /\ UNCHANGED <<userDoc, interactions, movieData, recDoc, rf, gen, prior>>

\* positions of refreshUserRecommendations before a read
RefreshReads == {"getPref", "getUser", "getInteractions"}

\* a read of refreshUserRecommendations rejects (steps 1, 3, 4): its catch
\* block rethrows, and so does the catch block of the handler that called it
RfReadFails(p) ==
    /\ rf[p].pc \in RefreshReads
    /\ rf' = [rf EXCEPT ![p] = [RefreshIdle EXCEPT !.pc = "threw",
                                                  !.calls = rf[p].calls]]
    /\ recDoc' = AbortedQueue(recDoc, rf[p].queue)
    /\ IF p \in Handlers
       THEN hs' = [hs EXCEPT ![p] = HandlerEnded(p, "failed")]
       ELSE UNCHANGED hs
    /\ UNCHANGED <<prefDoc, userDoc, interactions, movieData, gen, prior>>

\* the read of the movies in generateInitialRecommendations rejects (step 2):
\* the catch block throws HttpsError('internal')
GenReadFails ==
    /\ gen.pc = "getMovies"
    /\ gen' = [GenIdle EXCEPT !.pc = "threw", !.calls = gen.calls]
    /\ recDoc' = AbortedQueue(recDoc, gen.queue)
    /\ UNCHANGED <<prefDoc, userDoc, interactions, movieData, hs, rf, prior>>

\* recordInteraction with its refresh, and generateInitialQueue, over a store
\* whose operations can reject
NextFaulty ==
    \/ \E h \in 1..MaxStoreHandlers : CreateInteraction(h) /\ UNCHANGED otherThanStore
    \/ \E h \in Handlers : GetPref(h) /\ UNCHANGED otherThanStore
    \/ \E h \in Handlers : SetPref(h) /\ UNCHANGED otherThanStore
    \/ \E h \in Handlers : GetUser(h) /\ UNCHANGED otherThanStore
    \/ \E h \in Handlers : UpdUser(h) /\ UNCHANGED otherThanStore
    \/ \E h \in Handlers : UpdMovie(h) /\ UNCHANGED otherThanStore
    \/ \E h \in Handlers : HandlerOpFails(h) /\ UNCHANGED otherThanStore
    \/ \E h \in Handlers : SetPrefThenFail(h) /\ UNCHANGED otherThanStore
    \/ \E h \in Handlers : RfGetPref(h) /\ UNCHANGED otherThanStore
    \/ \E h \in Handlers : RfGetUser(h) /\ UNCHANGED otherThanStore
    \/ \E h \in Handlers : RfGetInteractions(h) /\ UNCHANGED otherThanStore
    \/ \E h \in Handlers : RfSetRecs(h) /\ UNCHANGED otherThanStore
    \/ \E h \in Handlers : RfReadFails(h) /\ UNCHANGED otherThanStore
    \/ GenCall /\ UNCHANGED otherThanStore
    \/ GenSetPref /\ UNCHANGED otherThanStore
    \/ GenGetMovies /\ UNCHANGED otherThanStore
    \/ GenSetRecs /\ UNCHANGED otherThanStore
    \/ GenReadFails /\ UNCHANGED otherThanStore

\* handlers that have run to their end
AllHandlersDone == \A h \in Handlers : hs[h].pc = "done"

\* handlers whose preference update was written and logged (steps 6 and 7)
Applied == {h \in Handlers : interactions[h].scoringData.scored}

\* the preference vectors that applying the updates of the handlers in S one
\* after the other, in any order, can leave, starting from base at count n
RECURSIVE SerialResults(_, _, _)
SerialResults(S, base, n) ==
    IF S = {} THEN {base}
    ELSE UNION {SerialResults(S \ {h},
                    updateUserPreferences(base,
                        MovieDoc(interactions[h].movieId).featureVector,
                        interactions[h].action, defaultLearningRate, n),
                    n + 1) : h \in S}

\* C2: once all handlers have completed, the stored totalUpdates is higher
\* than before them by the number of interactions applied
TotalUpdatesCountsApplied ==
    AllHandlersDone => prefDoc.totalUpdates = prior + Cardinality(Applied)

\* C3: once two handlers of weight-table gestures have both completed, the
\* stored vector is what the two updates leave when applied one after the
\* other in some order (the vector before them is all-zero)
UpdatesSerialized ==
    (/\ AllHandlersDone
     /\ Cardinality(Applied) = 2
     /\ \A h \in Applied : interactions[h].action \in GestureNames)
        => prefDoc.preferenceVector
              \in SerialResults(Applied, initializeUserPreferenceVector, prior)

\* C4: no step lowers the stored totalUpdates
TotalUpdatesNeverDecreases ==
    [][prefDoc'.totalUpdates >= prefDoc.totalUpdates]_vars

\* C10: the handler of an interaction (of an existing movie) whose gesture is
\* not in the weight table writes no preference record, no scoring snapshot
\* and no statistics, and ends by reporting a failure
InvalidGestureRejected ==
    \A h \in Handlers :
        (/\ interactions[h].created
         /\ interactions[h].action \notin GestureNames
         /\ interactions[h].movieId \in MovieIds)
            => /\ ~hs[h].wrotePref
               /\ ~interactions[h].scoringData.scored
               /\ hs[h].pc \in {"getPref", "setPref", "failed"}

\* handlers that have counted their interaction in the user's statistics
\* (step 8)
StatsCounted ==
    {h \in Handlers : /\ interactions[h].scoringData.scored
                      /\ hs[h].pc \in {"refresh", "updMovie", "done"}}

RECURSIVE RefreshesTriggered(_)
\* refreshUserRecommendations calls made by the handlers in S (step 9)
RefreshesTriggered(S) ==
    IF S = {} THEN 0
    ELSE LET h == CHOOSE g \in S : TRUE
         IN  rf[h].calls + RefreshesTriggered(S \ {h})

\* C11: once k interactions of the user have been processed, the handlers
\* have triggered floor(k / 5) refreshes (those of the `prior` interactions
\* processed before the behaviour starts set aside)
RefreshEveryFifth ==
    RefreshesTriggered(Handlers) =
        (prior + Cardinality(StatsCounted)) \div RefreshEvery
            - prior \div RefreshEvery

\* C12: the queue a refresh has computed was computed from the interaction
\* history and the statistics as they were at the refresh's first read, the
\* read of the preference vector
RefreshUsesStartSnapshot ==
    \A p \in Refreshers :
        rf[p].pc = "setRecs"
            => /\ rf[p].seenMovies = rf[p].startSeen
               /\ rf[p].explorationRate = rf[p].startRate

\* movie ids of a queue
QueueMovies(q) == {q[i].movieId : i \in 1..Len(q)}

\* C13: the queue a refresh computes holds no movie that has an interaction
\* document of the user when the refresh reads the history, in particular
\* not the movie of the interaction that triggered the refresh; and that
\* queue is the one the refresh writes
RefreshedQueueUnseen ==
    [][\A p \in Refreshers :
          /\ (rf[p].pc = "getInteractions" /\ rf'[p].pc = "setRecs")
                => /\ QueueMovies(rf'[p].queue) \cap InteractedMovies = {}
                   /\ p \in Handlers
                        => interactions[p].movieId \notin QueueMovies(rf'[p].queue)
          /\ (rf[p].pc = "setRecs" /\ rf'[p].pc # "setRecs")
                => recDoc' = [exists |-> TRUE, queue |-> rf[p].queue]
      ]_vars

\* C13 witness: the refresh triggered by the fifth interaction has written a
\* queue, which is short of QueueSize because of the movies filtered out
FilteredQueueWritten ==
    /\ prior = RefreshEvery - 1
    /\ rf[1].calls = 1
    /\ hs[1].pc = "updMovie"
    /\ recDoc.exists
    /\ Len(recDoc.queue) = Len(Catalog) - 2
    /\ QueueMovies(recDoc.queue) \cap InteractedMovies = {}

\* C14: a step in which a read of the queue builder fails leaves the queue
\* document as it was
FailedBuildLeavesQueue ==
    [][((\E p \in Refreshers : rf[p].pc \in RefreshReads /\ rf'[p].pc = "threw")
          \/ (gen.pc = "getMovies" /\ gen'.pc = "threw"))
            => recDoc' = recDoc]_vars

\* C14 witness: a refresh has failed on a read while a queue written earlier
\* is stored, and that queue is still there
EarlierQueueKeptAfterFailure ==
    /\ \E h \in Handlers : rf[h].pc = "threw" /\ hs[h].pc = "failed"
    /\ gen.pc = "idle"
    /\ gen.calls = 1
    /\ recDoc.exists
    /\ Len(recDoc.queue) = QueueSize

\* C15: a handler of a weight-table gesture that ended by throwing has left
\* the user's preference record as it was
FailedAttemptLeavesPreferences ==
    \A h \in Handlers :
        (hs[h].pc = "failed" /\ interactions[h].action \in GestureNames)
            => ~hs[h].wrotePref

\* C16: a handler that has written the preference record has created it, and
\* a refreshRecommendations call that has returned has left a queue document
MissingPreferencesRecovered ==
    /\ \A h \in Handlers : hs[h].wrotePref => prefDoc.exists
    /\ (rf[0].calls > 0 /\ rf[0].pc = "idle") => recDoc.exists

CacheKeys == 1..(maxSize + 1)

CacheValues == {"v1", "v2"}

CacheTtls == {0, 1}

\* `dropped`: the call deleted an entry
NoCall == [op |-> "init", key |-> 0, value |-> "null", ttl |-> 0, result |-> "null", dropped |-> FALSE]

\* this.cache.has(key)
HasKey(c, key) == \E i \in 1..Len(c) : c[i].key = key

\* position of key in the Map's iteration order
KeyIndex(c, key) == CHOOSE i \in 1..Len(c) : c[i].key = key

\* this.cache.delete(key)
MapDelete(c, key) == IF HasKey(c, key) THEN RemoveAt(c, KeyIndex(c, key)) ELSE c

\* this.cache.set(key, item): a key already present keeps its position
MapSet(c, key, item) ==
    IF HasKey(c, key)
    THEN [c EXCEPT ![KeyIndex(c, key)] = item]
    ELSE Append(c, item)

\* the eviction never taken
AtCapacityNever(c) == FALSE

\* this.cache.size >= this.maxSize
AtCapacity(c) == Len(c) >= maxSize

\* the newest key taken instead
LastKey(c) == IF c = <<>> THEN 0 ELSE c[Len(c)].key

\* this.cache.keys().next().value (undefined, here 0, on an empty Map)
FirstKey(c) == IF c = <<>> THEN 0 ELSE c[1].key

\* an entry that never expires
ExpiredNever(item, t) == FALSE

\* Date.now() > item.expiry
Expired(item, t) == t > item.expiry

\* Date.now() + (ttlSeconds * 1000)
Expiry(t, ttlSeconds) == t + ttlSeconds * 1000

CacheInit ==
    /\ cache = <<>>
    /\ now = 0
    /\ cacheEvent = NoCall

\* set(key, value, ttlSeconds)
CacheSet ==
    \E key \in CacheKeys, value \in CacheValues, ttlSeconds \in CacheTtls :
        LET firstKey == IF AtCapacity(cache) THEN FirstKey(cache) ELSE 0
            kept == IF AtCapacity(cache) THEN MapDelete(cache, firstKey) ELSE cache
        IN  /\ cache' = MapSet(kept, key,
                               [key |-> key, value |-> value,
                                expiry |-> Expiry(now, ttlSeconds)])
            /\ cacheEvent' = [op |-> "set", key |-> key, value |-> value,
                              ttl |-> ttlSeconds, result |-> "null",
                              dropped |-> HasKey(cache, firstKey)]
            /\ UNCHANGED now

\* get(key)
CacheGet ==
    \E key \in CacheKeys :
        /\ IF ~HasKey(cache, key)
           THEN /\ cacheEvent' = [NoCall EXCEPT !.op = "get", !.key = key]
                /\ UNCHANGED cache
           ELSE LET item == cache[KeyIndex(cache, key)]
                IN  IF Expired(item, now)
                    THEN /\ cache' = MapDelete(cache, key)
                         /\ cacheEvent' = [NoCall EXCEPT !.op = "get", !.key = key,
                                                         !.dropped = TRUE]
                    ELSE /\ cacheEvent' = [NoCall EXCEPT !.op = "get", !.key = key,
                                                         !.result = item.value]
                         /\ UNCHANGED cache
        /\ UNCHANGED now

\* clear()
CacheClear ==
    /\ cache' = <<>>
    /\ cacheEvent' = [NoCall EXCEPT !.op = "clear"]
    /\ UNCHANGED now

\* a second passes
Tick ==
    /\ now < MaxTicks * 1000
    /\ now' = now + 1000
    /\ cacheEvent' = [NoCall EXCEPT !.op = "tick"]
    /\ UNCHANGED cache

otherThanCache == <<learnVars, batchVars, storeVars, pureVars>>

NextCache ==
    \/ CacheSet /\ UNCHANGED otherThanCache
    \/ CacheGet /\ UNCHANGED otherThanCache
    \/ CacheClear /\ UNCHANGED otherThanCache
    \/ Tick /\ UNCHANGED otherThanCache

\* C17: the cache never holds more entries than maxSize (this.cache.size,
\* which size() returns)
CacheWithinCapacity == Len(cache) <= maxSize

\* C17 witness: a set on a full cache has just been made, and the cache is full
CacheFullAfterSet ==
    /\ cacheEvent.op = "set"
    /\ cacheEvent.dropped
    /\ Len(cache) = maxSize

GetHonoursTtl ==
    [][/\ cacheEvent'.op = "set"
            => /\ HasKey(cache', cacheEvent'.key)
               /\ cache'[KeyIndex(cache', cacheEvent'.key)] =
                      [key |-> cacheEvent'.key, value |-> cacheEvent'.value,
                       expiry |-> now + cacheEvent'.ttl * 1000]
       /\ cacheEvent'.op = "tick"
            => cache' = cache
       /\ cacheEvent'.op = "get"
            => LET k == cacheEvent'.key
               IN  IF ~HasKey(cache, k)
                   THEN cacheEvent'.result = "null" /\ cache' = cache
                   ELSE IF now > cache[KeyIndex(cache, k)].expiry
                        THEN /\ cacheEvent'.result = "null"
                             /\ ~HasKey(cache', k)
                             /\ Len(cache') = Len(cache) - 1
                        ELSE /\ cacheEvent'.result = cache[KeyIndex(cache, k)].value
                             /\ cache' = cache
      ]_vars

\* C19 witness: a get has just returned null for a key whose entry had
\* expired, and the entry is gone
ExpiredEntryDropped ==
    /\ cacheEvent.op = "get"
    /\ cacheEvent.result = "null"
    /\ cacheEvent.dropped
    /\ ~HasKey(cache, cacheEvent.key)

\* C30: a set of a key the cache already holds leaves every other entry in
\* the cache, with its value and expiry, and leaves the size as it was
OverwriteKeepsOthers ==
    [][(cacheEvent'.op = "set" /\ HasKey(cache, cacheEvent'.key))
          => /\ Len(cache') = Len(cache)
             /\ \A i \in 1..Len(cache) :
                   cache[i].key # cacheEvent'.key
                      => \E j \in 1..Len(cache') : cache'[j] = cache[i]
      ]_vars

\* ------------------------------------------- the pure functions, on their own
\* streak: the updates so far, when each was a loved update at rate 0.1 with
\* the item that is zero except genre_action = 1.0; -1 otherwise
NoPureCall == [fn |-> "none", args |-> <<>>, result |-> 0, streak |-> 0]

PureInit == call = NoPureCall

otherThanPure == <<learnVars, batchVars, storeVars, cacheVars>>

\* totalInteractions handed to calculateExplorationRate: a new user, Test 6's
\* 5 and 100, both sides of the 50 where the new-user bonus ends, and more
ExplorationTotals == {0, 5, 25, 49, 50, 51, 100, 1000}

\* like ratios: likes / total of a user's swipes
LikeRatios == {0, Scale \div 4, Scale \div 2, (3 * Scale) \div 4, Scale}

\* base rates: none, the 0.15 every caller passes, the ceiling, and 1.0
BaseRates == {0, baseExplorationRate, maxExplorationRate, Scale}

\* calculateExplorationRate(totalInteractions, likeRatio, baseRate)
EvalExplorationRate ==
    /\ \E totalInteractions \in ExplorationTotals, likeRatio \in LikeRatios,
          baseRate \in BaseRates :
          call' = [fn |-> "calculateExplorationRate",
                   args |-> [totalInteractions |-> totalInteractions,
                             likeRatio |-> likeRatio, baseRate |-> baseRate],
                   result |-> calculateExplorationRate(totalInteractions,
                                                       likeRatio, baseRate)]
    /\ UNCHANGED otherThanPure

\* the users documents refreshUserRecommendations may read: the stored
\* totalSwipes and likeRatio of a user who has swiped
StoredSwipes == {1, 10, 40, 100}

UserStats(totalSwipes, likeRatio) ==
    [exists |-> TRUE, totalSwipes |-> totalSwipes, likeRatio |-> likeRatio]

\* refreshUserRecommendations, step 2: the exploration rate it scores with
EvalRefreshRate ==
    /\ \E totalSwipes \in StoredSwipes, likeRatio \in LikeRatios :
          call' = [fn |-> "refreshExplorationRate",
                   args |-> [totalSwipes |-> totalSwipes,
                             likeRatio |-> likeRatio],
                   result |-> StatsExplorationRate(UserStats(totalSwipes,
                                                             likeRatio))]
    /\ UNCHANGED otherThanPure

\* GENRE_ID_MAPPING[genreId]; "none" for an identifier not in the table
GENRE_ID_MAPPING(genreId) ==
    CASE genreId \in {28, 12, 53, 80, 10752, 37} -> "genre_action"
      [] genreId \in {35, 10751, 16} -> "genre_comedy"
      [] genreId \in {18, 9648, 36, 10402, 99, 10770} -> "genre_drama"
      [] genreId = 27 -> "genre_horror"
      [] genreId = 10749 -> "genre_romance"
      [] genreId \in {878, 14} -> "genre_scifi"
      [] OTHER -> "none"

\* the six genre dimensions of FEATURE_DIMENSIONS
GenreDimensions ==
    {"genre_action", "genre_comedy", "genre_drama", "genre_horror",
     "genre_romance", "genre_scifi"}

\* genreCounts[dimension], 0 when the dimension was never counted
GenreCount(genreIds, dimension) ==
    Cardinality({i \in 1..Len(genreIds) : GENRE_ID_MAPPING(genreIds[i]) = dimension})

\* new Date(movie.releaseDate).getTime(), in thousandths of a year relative
\* to the current date: NaN for a missing or unparsable date (Invalid Date)
NewDate(releaseDate) ==
    IF releaseDate.parsable THEN -releaseDate.yearsAgo ELSE NaN

\* x / n for a number n, NaN when x is NaN
DivBy(x, n) == IF IsNaN(x) THEN NaN ELSE RoundDiv(x, n)

movieToFeatureVector(movie) ==
    LET totalGenres == IF Len(movie.genreIds) = 0 THEN 1 ELSE Len(movie.genreIds)
        yearsDiff == Sub(0, NewDate(movie.releaseDate))
    IN  [d \in FEATURE_DIMENSIONS |->
            CASE d \in GenreDimensions ->
                   RoundDiv(GenreCount(movie.genreIds, d) * Scale, totalGenres)
              [] d = "popularity_normalized" ->
                   MathMin(Scale, RoundDiv(OrElse(movie.popularity, 0) * Scale, 1000))
              [] d = "recency_score" ->
                   MathMax(0, MathMin(Scale, Sub(Scale, DivBy(yearsDiff, 10))))
              [] d = "rating_normalized" ->
                   RoundDiv(OrElse(movie.voteAverage, 0) * Scale, 100)]

\* genre identifier lists of movies: none, one, two of one dimension, two
\* dimensions, one unmapped identifier, three and four identifiers
GenreIdLists ==
    {<<>>, <<28>>, <<28, 12>>, <<28, 35>>, <<35, 424242>>, <<27, 10749, 878>>,
     <<28, 12, 53, 18>>}

\* movie.popularity, non-negative
Popularities == {0, 50, 1000, 5000}

\* movie.voteAverage in tenths, on the 0-10 scale
VoteAverages == {0, 72, 100}

\* movie.releaseDate: two years ahead, today, one, five, ten and 25 years
\* ago, and a string that is not a date
ReleaseDates ==
    {[parsable |-> TRUE, yearsAgo |-> y] :
        y \in {-(2 * Scale), 0, Scale, 5 * Scale, 10 * Scale, 25 * Scale}}
      \cup {[parsable |-> FALSE, yearsAgo |-> 0]}

\* movieToFeatureVector(movie)
EvalFeatureVector ==
    /\ \E genreIds \in GenreIdLists, popularity \in Popularities,
          releaseDate \in ReleaseDates, voteAverage \in VoteAverages :
          LET movie == [genreIds |-> genreIds, popularity |-> popularity,
                        releaseDate |-> releaseDate, voteAverage |-> voteAverage]
          IN  call' = [fn |-> "movieToFeatureVector", args |-> movie,
                       result |-> movieToFeatureVector(movie)]
    /\ UNCHANGED otherThanPure

\* totalInteractions handed to calculateModelConfidence: a user's first
\* updates, Test 7's 10 and 100, and both sides of the 315 where log10(n+1)
\* passes 2.5
ConfidenceTotals == {0, 1, 9, 10, 99, 100, 315, 316, 1000}

\* calculateModelConfidence(totalInteractions), called once on its own
EvalModelConfidence ==
    /\ call.fn = "none"
    /\ \E totalInteractions \in ConfidenceTotals :
          call' = [fn |-> "calculateModelConfidence",
                   args |-> [totalInteractions |-> totalInteractions],
                   result |-> calculateModelConfidence(totalInteractions)]
    /\ UNCHANGED otherThanPure

NextPure ==
    \/ EvalExplorationRate
    \/ EvalRefreshRate
    \/ EvalFeatureVector

\* processSwipeInteraction recomputing the stored confidence, beside a call
\* of calculateModelConfidence
NextConfidence ==
    \/ NextSwipe
    \/ EvalModelConfidence

\* ------------------------------------------------- the queue builders alone
\* the length of the initial queue
InitialSlots == 50

\* movies of the pool: "genre" movies are action movies, "hit" movies popular
\* and well rated dramas, "plain" movies dramas rated 6.0; none carries a
\* featureVector, so the builder computes it from the movie
PoolKinds == <<"genre", "hit", "plain">>

PoolMovie(kind, k) ==
    LET movie ==
            [genreIds |-> IF kind # "genre" THEN <<18>>
                          ELSE IF k % 2 = 0 THEN <<28>> ELSE <<28, 35>>,
             popularity |-> 2000 - 3 * k
                               - (CHOOSE j \in 1..3 : PoolKinds[j] = kind),
             voteAverage |-> IF kind = "plain" THEN 60 ELSE 75,
             releaseDate |-> [parsable |-> TRUE, yearsAgo |-> Scale]]
    IN  [id |-> <<kind, k>>,
         genres |-> IF kind = "genre" THEN {"action"} ELSE {"drama"},
         popularity |-> movie.popularity, voteAverage |-> movie.voteAverage,
         featureVector |-> movieToFeatureVector(movie)]

\* the movies query's result, most popular first, for a collection with the
\* given number of movies of each kind
Pool(count) ==
    LET most == IF count.genre >= count.hit /\ count.genre >= count.plain
                THEN count.genre
                ELSE IF count.hit >= count.plain THEN count.hit ELSE count.plain
        all == [i \in 1..(3 * most) |->
                   PoolMovie(PoolKinds[((i - 1) % 3) + 1], ((i - 1) \div 3) + 1)]
        Present(movie) == movie.id[2] <= count[movie.id[1]]
    IN  SelectSeq(all, Present)

\* numbers of movies of a kind: none, and around each quota
PoolCounts ==
    [genre : {0, 29, 30, 31, 40}, hit : {0, 11, 12, 13, 20},
     plain : {0, 6, 7, 8, 12}]

\* generateInitialRecommendations, steps 2 to 5, called once: the pool
\* scored, sorted and distributed over the 50 slots
EvalInitialQueue ==
    /\ call.fn = "none"
    /\ \E count \in PoolCounts, selectedCategories \in CategoryChoices :
          LET allMovies == Pool(count)
              initialPreferences == SeededPreferences(selectedCategories)
              scoredMovies ==
                  [i \in 1..Len(allMovies) |->
                      InitialScored(allMovies[i], initialPreferences,
                                    selectedCategories)]
          IN  call' = [fn |-> "generateInitialRecommendations",
                       args |-> [selectedCategories |-> selectedCategories,
                                 scoredMovies |-> scoredMovies],
                       result |-> InitialQueueOf(SortByScore(scoredMovies),
                                                 InitialSlots)]
    /\ UNCHANGED otherThanPure

\* live preference vectors a refresh may read: a new user's, one seeded with
\* a category, and one that has learnt to avoid action and favour comedy
RefreshPreferences ==
    {initializeUserPreferenceVector, SeededPreferences({"action"}),
     FeatureVector([genre_action |-> -Scale, genre_comedy |-> Scale])}

\* exploration rates a refresh may compute
RefreshRates == {baseExplorationRate, maxExplorationRate}

\* refreshUserRecommendations, steps 4 to 6, called once: the unseen movies
\* scored, sorted and cut to the queue
EvalRefreshQueue ==
    /\ call.fn = "none"
    /\ \E seenMovies \in SUBSET MovieIds, userPreferences \in RefreshPreferences,
          explorationRate \in RefreshRates :
          LET unseenMovies == Unseen(Catalog, seenMovies)
          IN  \E draw \in [1..Len(unseenMovies) -> Draws] :
                 LET scoredMovies ==
                         [i \in 1..Len(unseenMovies) |->
                             RefreshScored(unseenMovies[i], userPreferences,
                                           explorationRate, draw[i])]
                 IN  call' = [fn |-> "refreshUserRecommendations",
                              args |-> [unseenMovies |-> unseenMovies,
                                        draw |-> draw,
                                        scoredMovies |-> scoredMovies],
                              result |-> TopOfQueue(SortByScore(scoredMovies))]
    /\ UNCHANGED otherThanPure

NextBuild ==
    \/ EvalInitialQueue
    \/ EvalRefreshQueue

\* C23: a refreshed queue holds the min(queue size, n) highest-final-score
\* candidates of the n unseen movies in non-increasing score order, the entry
\* at index i carries position i, and an entry's reason is exploration if the
\* candidate was sampled for exploration, otherwise trending if its
\* popularity and rating exceed the thresholds, otherwise preference_match
RefreshedQueueIsTopByScore ==
    call.fn = "refreshUserRecommendations"
       => LET q == call.result
              unseen == call.args.unseenMovies
              cand == call.args.scoredMovies
              n == Len(unseen)
              Picked == {k \in 1..n : \E i \in 1..Len(q) :
                                         q[i].movieId = unseen[k].id}
          IN  /\ Len(q) = (IF n < QueueSize THEN n ELSE QueueSize)
              /\ \A i, j \in 1..Len(q) : i # j => q[i].movieId # q[j].movieId
              /\ \A i, j \in 1..Len(q) : i < j => q[i].score >= q[j].score
              /\ \A i \in 1..Len(q) : q[i].position = i - 1
              /\ \A i \in 1..Len(q) :
                    \E k \in 1..n :
                       /\ q[i].movieId = unseen[k].id
                       /\ q[i].score = cand[k].score
                       /\ q[i].reason =
                             (IF call.args.draw[k] # "no" THEN "exploration"
                              ELSE IF unseen[k].popularity > 200
                                      /\ unseen[k].voteAverage > 75
                                   THEN "trending"
                                   ELSE "preference_match")
              /\ \A k \in (1..n) \ Picked :
                    \A i \in 1..Len(q) : cand[k].score <= q[i].score

\* three unseen movies for a queue of QueueSize: the movie sampled for
\* exploration leads, a trending one follows, and the third is cut
ExplorationLeadsCutQueue ==
    /\ call.fn = "refreshUserRecommendations"
    /\ Len(call.args.unseenMovies) > QueueSize
    /\ Len(call.result) = QueueSize
    /\ call.result[1].reason = "exploration"
    /\ call.result[1].score > call.result[2].score
    /\ \E i \in 1..Len(call.result) : call.result[i].reason = "trending"

\* C21: the initial queue holds no item twice, has 50 entries whenever the
\* pool has at least 50 items and all pool items otherwise, and the entry at
\* index i carries position i
InitialQueueDedupedAndFull ==
    call.fn = "generateInitialRecommendations"
       => LET q == call.result
              n == Len(call.args.scoredMovies)
          IN  /\ \A i, j \in 1..Len(q) :
                    i # j => q[i].movieId # q[j].movieId
              /\ Len(q) = (IF n >= 50 THEN 50 ELSE n)
              /\ \A i \in 1..Len(q) : q[i].position = i - 1

\* a pool of 72 movies, more of every reason than its quota
LargePoolQueued ==
    /\ call.fn = "generateInitialRecommendations"
    /\ Len(call.args.scoredMovies) = 72
    /\ call.args.selectedCategories = {"action"}
    /\ Len(call.result) = 50

\* the whole slots a share of the 50 comes to
ShareOfSlots(percent) == (50 * percent) \div 100

\* the entries a reason contributes: its quota, or all its candidates
Contribution(reason, percent) ==
    LET candidates ==
            Cardinality({k \in 1..Len(call.args.scoredMovies) :
                            call.args.scoredMovies[k].reason = reason})
    IN  IF candidates < ShareOfSlots(percent) THEN candidates
        ELSE ShareOfSlots(percent)

\* the reason of the entry at index i - 1 of the initial queue
QuotaReason(i) ==
    LET nC == Contribution("category_match", 60)
        nT == Contribution("trending", 25)
        nE == Contribution("exploration", 15)
    IN  IF i <= nC THEN "category_match"
        ELSE IF i <= nC + nT THEN "trending"
        ELSE IF i <= nC + nT + nE THEN "exploration"
        ELSE "preference_match"

\* C22: of the 50 slots category_match gets 60%, trending 25% and exploration
\* 15%; each reason contributes min(quota, its candidates) entries, its
\* highest-scoring candidates in descending score order, category_match
\* first, then trending, then exploration; every remaining slot holds the
\* highest-scoring candidate not yet added, tagged preference_match
InitialQueueFilledByQuota ==
    call.fn = "generateInitialRecommendations"
       => LET q == call.result
              cand == call.args.scoredMovies
              Entries(reason) == {i \in 1..Len(q) : q[i].reason = reason}
              Ids(S) == {q[i].movieId : i \in S}
          IN  /\ Len(q) = (IF Len(cand) >= 50 THEN 50 ELSE Len(cand))
              /\ \A i \in 1..Len(q) : q[i].reason = QuotaReason(i)
              /\ \A i \in 1..Len(q) :
                    \E k \in 1..Len(cand) :
                       /\ cand[k].movieId = q[i].movieId
                       /\ cand[k].score = q[i].score
                       /\ q[i].reason # "preference_match"
                             => cand[k].reason = q[i].reason
              /\ \A i, j \in 1..Len(q) :
                    (i < j /\ q[i].reason = q[j].reason)
                       => q[i].score >= q[j].score
              /\ \A i \in 1..Len(q), k \in 1..Len(cand) :
                    \/ q[i].reason = "preference_match"
                          /\ cand[k].movieId \in Ids(1..Len(q))
                    \/ q[i].reason # "preference_match"
                          /\ \/ cand[k].reason # q[i].reason
                             \/ cand[k].movieId \in Ids(Entries(q[i].reason))
                    \/ cand[k].score <= q[i].score

\* 40 category matches for 30 slots, 11 trending movies for 12 slots, 12
\* exploration movies for 7 slots, and two slots left for the best of the rest
QuotasAndFillUsed ==
    /\ call.fn = "generateInitialRecommendations"
    /\ Len(call.result) = 50
    /\ call.result[30].reason = "category_match"
    /\ call.result[31].reason = "trending"
    /\ call.result[41].reason = "trending"
    /\ call.result[42].reason = "exploration"
    /\ call.result[48].reason = "exploration"
    /\ call.result[49].reason = "preference_match"
    /\ call.result[49].score > call.result[48].score

\* ------------------------------------------------ repeated positive updates
\* the item whose vector is zero except genre_action = 1.0
actionOnlyFeatures == FeatureVector([genre_action |-> Scale])

RepeatItems == {actionOnlyFeatures, comedyFeatures, hugeFeatures}

\* the positive gestures
PositiveGestures == {"liked", "loved"}

\* Test 9 applies 10 updates
RepeatCount == 10

InStreak(movieFeatures, action, learningRate, totalInteractions) ==
    /\ call.streak = lcount
    /\ movieFeatures = actionOnlyFeatures
    /\ action = "loved"
    /\ learningRate = defaultLearningRate
    /\ totalInteractions = lcount

\* prefs = updateUserPreferences(prefs, features, action, rate, i).preferences
\* with a positive gesture; Test 9's run of loved updates is followed to its
\* end, any other sequence for MaxUpdates updates
RepeatUpdate ==
    /\ lcount < RepeatCount
    /\ \E movieFeatures \in RepeatItems, action \in PositiveGestures,
          learningRate \in LearnRates, totalInteractions \in {lcount, 100} :
          /\ \/ lcount < MaxUpdates
             \/ InStreak(movieFeatures, action, learningRate, totalInteractions)
          /\ lprefs' = updateUserPreferences(lprefs, movieFeatures, action,
                                             learningRate, totalInteractions)
          /\ call' = [fn |-> "updateUserPreferences",
                      args |-> [currentPreferences |-> lprefs,
                                movieFeatures |-> movieFeatures,
                                action |-> action,
                                learningRate |-> learningRate,
                                totalInteractions |-> totalInteractions],
                      result |-> lprefs',
                      streak |-> IF InStreak(movieFeatures, action, learningRate,
                                             totalInteractions)
                                 THEN lcount + 1 ELSE -1]
    /\ lcount' = lcount + 1
    /\ UNCHANGED <<batchVars, storeVars, cacheVars>>

NextRepeat == RepeatUpdate

\* the loved updates of the run strictly raise genre_action and keep it <= 1
StreakRises ==
    (call.fn = "updateUserPreferences" /\ call.streak >= 1)
       => /\ call.result.genre_action > call.args.currentPreferences.genre_action
          /\ call.result.genre_action <= Scale

\* dimension d is not further from the item's value after the update
NotFurther(d) ==
    LET movieValue == OrZero(call.args.movieFeatures[d])
    IN  Abs(call.result[d] - movieValue)
           <= Abs(OrZero(call.args.currentPreferences[d]) - movieValue)

\* C25 as stated: from the zero vector, each of the first 10 consecutive loved
\* updates at rate 0.1 with the item that is zero except genre_action = 1.0
\* strictly raises genre_action and never takes it above 1.0, and a liked or
\* loved update never moves a dimension away from the item's value
PositiveUpdateNeverMovesAway ==
    /\ StreakRises
    /\ call.fn = "updateUserPreferences"
          => \A d \in FEATURE_DIMENSIONS : NotFurther(d)

\* C25, amended: the same, the second part for the updates whose effective
\* learning rate times gesture weight is at most 2
ModeratePositiveUpdateNeverMovesAway ==
    /\ StreakRises
    /\ (/\ call.fn = "updateUserPreferences"
        /\ Mul(effectiveLearningRate(call.args.learningRate,
                                     call.args.totalInteractions),
               GESTURE_WEIGHTS(call.args.action)) <= 2 * Scale)
          => \A d \in FEATURE_DIMENSIONS : NotFurther(d)

\* the tenth loved update of the run has been applied
TenthLovedUpdateApplied ==
    /\ call.fn = "updateUserPreferences"
    /\ call.streak = RepeatCount
    /\ call.result.genre_action < Scale

\* C24: calculateExplorationRate never returns more than 0.3, for fixed
\* likeRatio and baseRate it does not increase as totalInteractions grows, and
\* for likeRatio 0.5 and base 0.15 it is strictly higher at 5 interactions
\* than at 100
ExplorationRateCappedAndFading ==
    call.fn = "calculateExplorationRate"
       => /\ call.result <= (3 * Scale) \div 10
          /\ \A later \in ExplorationTotals :
                later >= call.args.totalInteractions
                   => calculateExplorationRate(later, call.args.likeRatio,
                                               call.args.baseRate)
                         <= call.result
          /\ (/\ call.args.totalInteractions = 5
              /\ call.args.likeRatio = Scale \div 2
              /\ call.args.baseRate = (15 * Scale) \div 100)
                => call.result > calculateExplorationRate(100, Scale \div 2,
                                                          (15 * Scale) \div 100)

\* a brand-new user who disliked everything so far: 0.15 + 0.1 + 0.1 hits
\* the ceiling
ExplorationRateAtCeiling ==
    /\ call.fn = "calculateExplorationRate"
    /\ call.args.totalInteractions = 0
    /\ call.args.likeRatio = 0
    /\ call.args.baseRate = baseExplorationRate
    /\ call.result = maxExplorationRate

\* C28: of two users with the same stored totalSwipes, the one whose stored
\* likeRatio is further from 0.5 (a stored likeRatio of exactly 0 included)
\* never gets a lower exploration rate in a refresh
FurtherFromBalanceExploresMore ==
    call.fn = "refreshExplorationRate"
       => \A other \in LikeRatios :
             Abs(other - Scale \div 2) <= Abs(call.args.likeRatio - Scale \div 2)
                => StatsExplorationRate(UserStats(call.args.totalSwipes, other))
                      <= call.result

\* C26: every dimension of a vector produced by movieToFeatureVector is in
\* [0,1] when the popularity is non-negative and the rating on the 0-10 scale:
\* the genre dimensions are in [0,1] and sum to at most 1, and the recency is
\* in [0,1] for every release date, a future and an unparsable one included
FeatureVectorInUnitRange ==
    call.fn = "movieToFeatureVector"
       => /\ \A d \in FEATURE_DIMENSIONS :
                /\ ~IsNaN(call.result[d])
                /\ 0 <= call.result[d]
                /\ call.result[d] <= Scale
          /\ SumOver(GenreDimensions, call.result) <= Scale

\* C27: calculateModelConfidence(n) <= calculateModelConfidence(n+1) <= 1
\* for every n >= 0, and the modelConfidence stored with a user's preference
\* record is the value recomputed from the totalUpdates of the same record
ConfidenceMonotoneAndStoredInStep ==
    /\ call.fn = "calculateModelConfidence"
          => /\ call.result <= Scale
             /\ call.result
                   <= calculateModelConfidence(call.args.totalInteractions + 1)
             /\ calculateModelConfidence(call.args.totalInteractions + 1) <= Scale
    /\ prefDoc.exists
          => prefDoc.modelConfidence
                = MathMin(Scale, RoundDiv(Log10[prefDoc.totalUpdates + 1] * 10,
                                          25 * (1000000 \div Scale)))

\* the ceiling is reached, log10(1001) / 2.5 being 1.2, and two handlers have
\* written a record with a confidence above 0
ConfidenceAtCeiling ==
    /\ call.fn = "calculateModelConfidence"
    /\ call.args.totalInteractions = 1000
    /\ call.result = Scale
    /\ prefDoc.totalUpdates = prior + 2
    /\ prefDoc.modelConfidence > 0

\* ---------------------------------------------------------- specifications
Init == LearnInit /\ BatchInit /\ StoreInit /\ CacheInit /\ PureInit

SpecLearn == Init /\ [][NextLearn]_vars

SpecBatch == Init /\ [][NextBatch]_vars

SpecSwipe == Init /\ [][NextSwipe]_vars

SpecStore == Init /\ [][NextStore]_vars

SpecCache == Init /\ [][NextCache]_vars

SpecFaulty == Init /\ [][NextFaulty]_vars

SpecPure == Init /\ [][NextPure]_vars

SpecRepeat == Init /\ [][NextRepeat]_vars

SpecBuild == Init /\ [][NextBuild]_vars

SpecConfidence == Init /\ [][NextConfidence]_vars

\* armed timers fire and the store answers every bulk write, rejecting at
\* most MaxFails of them
FairSpecBatch ==
    SpecBatch /\ WF_vars(TimerFire /\ UNCHANGED otherThanBatch)
              /\ WF_vars(CommitOk /\ UNCHANGED otherThanBatch)

====
